---- MODULE Spec2Model ----
(***************************************************************************)
(* Model of plotly/api/v1/utils.py: validate_response, basic_auth,         *)
(* get_headers and request.                                                *)
(*                                                                         *)
(* Python values are tagged records ([t |-> <type>, v |-> <payload>]) so   *)
(* that None, str, bytes, int, list and dict values stay distinguishable.  *)
(* A call of request() is split where the code hands control to the        *)
(* transport (requests.request): the action request() runs lines 88-93 up  *)
(* to the transport call, and TransportReturns / TransportRaises run the   *)
(* remainder of the function for each way the transport can come back.     *)
(***************************************************************************)
EXTENDS Integers, Sequences, FiniteSets, TLC

VARIABLES creds, config, pc, args, callerHeaders, assembled, sent,
          transportCalls, validatorCalls, outcome, result

vars == <<creds, config, pc, args, callerHeaders, assembled, sent,
          transportCalls, validatorCalls, outcome, result>>

(***************************************************************************)
(* Bounds                                                                  *)
(***************************************************************************)
MaxCredLen == 2
MaxCallerHeaders == 2

(***************************************************************************)
(* Python values                                                           *)
(***************************************************************************)
None == [t |-> "None"]
Str(s) == [t |-> "str", v |-> s]
Bytes(b) == [t |-> "bytes", v |-> b]
PyInt(n) == [t |-> "int", v |-> n]
PyList(l) == [t |-> "list", v |-> l]
PyDict(d) == [t |-> "dict", v |-> d]

EmptyMap == [k \in {} |-> None]

\* dict.get(key, default)
Get(d, key, default) == IF key \in DOMAIN d THEN d[key] ELSE default

\* DictMerge with the precedence reversed: the entries of base win
DictMerge_baseWins(base, extra) ==
    [k \in (DOMAIN base) \cup (DOMAIN extra) |->
        IF k \in DOMAIN base THEN base[k] ELSE extra[k]]

\* dict(base, **extra): a fresh mapping, entries of extra written second
DictMerge(base, extra) ==
    [k \in (DOMAIN base) \cup (DOMAIN extra) |->
        IF k \in DOMAIN extra THEN extra[k] ELSE base[k]]

\* requests.Response.ok: raise_for_status() fails for 400 <= status < 600
Ok(response) ==
    ~(400 <= response.status_code.v /\ response.status_code.v < 600)

\* Python truth value of an object; a requests.Response is true iff it is ok
Truthy(x) ==
    CASE x.t = "None" -> FALSE
      [] x.t = "str" -> x.v # ""
      [] x.t = "bytes" -> x.v # ""
      [] x.t = "int" -> x.v # 0
      [] x.t = "list" -> Len(x.v) > 0
      [] x.t = "dict" -> DOMAIN x.v # {}
      [] x.t = "Response" -> Ok(x)

(***************************************************************************)
(* Response bodies and response.json()                                     *)
(***************************************************************************)
BodyEmpty == ""
BodyText == "Not Found"
BodyError == "{\"error\": \"not found\"}"
BodyErrorEmpty == "{\"error\": \"\"}"
BodyErrorNum == "{\"error\": 42}"
BodyNoError == "{\"detail\": \"x\"}"
BodyList == "[\"error\"]"
BodyString == "\"error\""

Bodies == {BodyEmpty, BodyText, BodyError, BodyErrorEmpty, BodyErrorNum,
           BodyNoError, BodyList, BodyString}

\* response.json(): [ok |-> FALSE] stands for the ValueError of a body that
\* is not a JSON document
Json(content) ==
    CASE content.v = BodyError ->
           [ok |-> TRUE, value |-> PyDict("error" :> Str("not found"))]
      [] content.v = BodyErrorEmpty ->
           [ok |-> TRUE, value |-> PyDict("error" :> Str(""))]
      [] content.v = BodyErrorNum ->
           [ok |-> TRUE, value |-> PyDict("error" :> PyInt(42))]
      [] content.v = BodyNoError ->
           [ok |-> TRUE, value |-> PyDict("detail" :> Str("x"))]
      [] content.v = BodyList ->
           [ok |-> TRUE, value |-> PyList(<<Str("error")>>)]
      [] content.v = BodyString ->
           [ok |-> TRUE, value |-> Str("error")]
      [] OTHER -> [ok |-> FALSE]

StatusCodes == {200, 302, 404, 500}

Responses ==
    {[t |-> "Response", status_code |-> PyInt(s), content |-> Bytes(b)] :
        s \in StatusCodes, b \in Bodies}

(***************************************************************************)
(* validate_response                                                       *)
(***************************************************************************)
PlotlyRequestError(message, status_code, content) ==
    [kind |-> "PlotlyRequestError", message |-> message,
     status_code |-> status_code, content |-> content]

PlotlyError(message) == [kind |-> "PlotlyError", message |-> message]

Returned(value) == [kind |-> "return", value |-> value]

\* FallbackMessage without the default for an empty body
FallbackMessage_noDefault(content) == content

\* lines 29 and 38: content if content else 'No Content'
FallbackMessage(content) ==
    IF Truthy(content) THEN content ELSE Str("No Content")

\* ErrorField reading the key "message" instead of "error"
ErrorField_wrongKey(parsed_content) ==
    IF parsed_content.t = "dict"
    THEN LET error == Get(parsed_content.v, "message", None)
         IN IF Truthy(error) THEN error ELSE Str("")
    ELSE Str("")

\* lines 32-36: the truthy "error" entry of a parsed mapping, '' otherwise
ErrorField(parsed_content) ==
    IF parsed_content.t = "dict"
    THEN LET error == Get(parsed_content.v, "error", None)
         IN IF Truthy(error) THEN error ELSE Str("")
    ELSE Str("")

\* validate_response raising with the parsed body as content
validate_response_parsedContent(response) ==
    IF Ok(response) THEN Returned(None)
    ELSE LET content == response.content
             status_code == response.status_code
             parsed == Json(content)
         IN IF ~parsed.ok
            THEN PlotlyRequestError(FallbackMessage(content), status_code,
                                    content)
            ELSE LET message == ErrorField(parsed.value)
                 IN PlotlyRequestError(
                        IF ~Truthy(message) THEN FallbackMessage(content)
                        ELSE message,
                        status_code, parsed.value)

\* lines 21-40; the value of validate_response(response): Returned(None), or
\* the PlotlyRequestError it raises
validate_response(response) ==
    IF Ok(response) THEN Returned(None)
    ELSE LET content == response.content
             status_code == response.status_code
             parsed == Json(content)
         IN IF ~parsed.ok
            THEN PlotlyRequestError(FallbackMessage(content), status_code,
                                    content)
            ELSE LET message == ErrorField(parsed.value)
                 IN PlotlyRequestError(
                        IF ~Truthy(message) THEN FallbackMessage(content)
                        ELSE message,
                        status_code, content)

(***************************************************************************)
(* basic_auth and get_headers                                              *)
(***************************************************************************)
\* strings of credentials are sequences of character codes
Colon == <<58>>
BasicPrefix == <<66, 97, 115, 105, 99, 32>>
PadChar == 61

\* the base64 alphabet: A-Z, a-z, 0-9, +, /
B64Char(i) ==
    IF i < 26 THEN 65 + i
    ELSE IF i < 52 THEN 97 + (i - 26)
    ELSE IF i < 62 THEN 48 + (i - 52)
    ELSE IF i = 62 THEN 43 ELSE 47

RECURSIVE b64encode(_)
b64encode(b) ==
    IF Len(b) = 0 THEN <<>>
    ELSE IF Len(b) = 1
    THEN <<B64Char(b[1] \div 4), B64Char((b[1] % 4) * 16), PadChar, PadChar>>
    ELSE IF Len(b) = 2
    THEN <<B64Char(b[1] \div 4),
           B64Char((b[1] % 4) * 16 + (b[2] \div 16)),
           B64Char((b[2] % 16) * 4), PadChar>>
    ELSE <<B64Char(b[1] \div 4),
           B64Char((b[1] % 4) * 16 + (b[2] \div 16)),
           B64Char((b[2] % 16) * 4 + (b[3] \div 64)),
           B64Char(b[3] % 64)>> \o b64encode(SubSeq(b, 4, Len(b)))

basic_auth(username, password) ==
    LET auth == username \o Colon \o password
        encoded_auth == b64encode(auth)
    IN Bytes(BasicPrefix \o encoded_auth)

\* get_headers encoding the user's own credentials
get_headers_userCreds ==
    LET headers == "content-type" :> Str("application/json")
        proxy_auth == basic_auth(creds.username, creds.password)
    IN IF config.plotly_proxy_authorization
       THEN ("authorization" :> proxy_auth) @@ headers
       ELSE headers

\* lines 68-75
get_headers ==
    LET headers == "content-type" :> Str("application/json")
        proxy_auth == basic_auth(creds.proxy_username, creds.proxy_password)
    IN IF config.plotly_proxy_authorization
       THEN ("authorization" :> proxy_auth) @@ headers
       ELSE headers

\* the credentials and the configuration the session can hold
CredStrings(c) == {[i \in 1..k |-> c] : k \in 0..MaxCredLen}

Credentials ==
    {[username |-> u, password |-> p,
      proxy_username |-> pu, proxy_password |-> pp] :
        u \in {<<117>>, <<97>>}, p \in {<<112>>},
        pu \in CredStrings(97), pp \in CredStrings(98)}

Configs == {[plotly_proxy_authorization |-> f] : f \in BOOLEAN}

(***************************************************************************)
(* request                                                                 *)
(***************************************************************************)
Methods == {"get", "post"}
Urls == {"https://plot.ly/clientresp"}

CallerHeaderValue(k) ==
    CASE k = "content-type" -> Str("text/plain")
      [] k = "authorization" -> Str("Bearer token")
      [] OTHER -> Str("1")

CallerHeaderNames == {"x-custom", "content-type", "authorization"}

CallerHeaders ==
    {[k \in D |-> CallerHeaderValue(k)] :
        D \in {S \in SUBSET CallerHeaderNames :
                  Cardinality(S) <= MaxCallerHeaders}}

\* an option is left out of the call, or passed with one of these values
JsonOptions == {EmptyMap} \cup
    {"json" :> j : j \in {None, PyDict(EmptyMap), PyDict("a" :> PyInt(1))}}
HeaderOptions == {EmptyMap, "headers" :> None} \cup
    {"headers" :> PyDict(h) : h \in CallerHeaders}
OtherOptions == {EmptyMap, "timeout" :> PyInt(5)}

Kwargs == {j @@ h @@ o : j \in JsonOptions, h \in HeaderOptions,
                         o \in OtherOptions}

\* JsonGiven testing the truth value: if kwargs.get('json')
JsonGiven_truthy(kwargs) == Truthy(Get(kwargs, "json", None))

\* line 88: kwargs.get('json', None) is not None
JsonGiven(kwargs) == Get(kwargs, "json", None).t # "None"

\* line 91: dict(x, **y) raises TypeError unless x is a mapping (or iterable)
HeadersMergeable(kwargs) == Get(kwargs, "headers", PyDict(EmptyMap)).t = "dict"

TypeError == [kind |-> "TypeError"]

\* HeadersAssign updating the caller's mapping in place:
\* kwargs.setdefault('headers', {}).update(get_headers())
HeadersAssign_inplace(kwargs, headers) ==
    LET merged == PyDict(DictMerge(Get(kwargs, "headers", PyDict(EmptyMap)).v,
                                   headers))
    IN [kwargs |-> ("headers" :> merged) @@ kwargs,
        caller |-> IF "headers" \in DOMAIN kwargs THEN merged ELSE None]

\* line 91: kwargs['headers'] = dict(kwargs.get('headers', {}), **get_headers())
\* kwargs: the callee's option mapping afterwards; caller: the mapping object
\* the caller passed as headers afterwards (None if the caller passed none)
HeadersAssign(kwargs, headers) ==
    [kwargs |-> ("headers" :>
                    PyDict(DictMerge(Get(kwargs, "headers", PyDict(EmptyMap)).v,
                                     headers))) @@ kwargs,
     caller |-> Get(kwargs, "headers", None)]

\* getattr(e, name, default)
Getattr(e, name, default) == IF name \in DOMAIN e THEN e[name] ELSE default

\* a RequestException always has the attribute response (None by default);
\* it has the attribute message only on Python 2
RequestExceptions ==
    {("response" :> r) @@ m :
        r \in Responses \cup {None},
        m \in {EmptyMap, "message" :> Str("timed out")}}

\* request_except with the validator's spelling of the default content
request_except_caps(e) ==
    LET message == Getattr(e, "message", Str("No message"))
        response == Getattr(e, "response", None)
        status_code == IF Truthy(response) THEN response.status_code ELSE None
        content == IF Truthy(response) THEN response.content
                   ELSE Str("No Content")
    IN PlotlyRequestError(message, status_code, content)

\* request_except handing back the attached response instead of raising
request_except_swallow(e) ==
    LET message == Getattr(e, "message", Str("No message"))
        response == Getattr(e, "response", None)
    IN IF Truthy(response) THEN Returned(response)
       ELSE PlotlyRequestError(message, None, Str("No content"))

\* lines 94-99: the error raised for a RequestException e
request_except(e) ==
    LET message == Getattr(e, "message", Str("No message"))
        response == Getattr(e, "response", None)
        status_code == IF Truthy(response) THEN response.status_code ELSE None
        content == IF Truthy(response) THEN response.content
                   ELSE Str("No content")
    IN PlotlyRequestError(message, status_code, content)

NoOutcome == [kind |-> "none"]

Init ==
    /\ creds \in Credentials
    /\ config \in Configs
    /\ pc = "idle"
    /\ args = None
    /\ callerHeaders = None
    /\ assembled = None
    /\ sent = None
    /\ transportCalls = 0
    /\ validatorCalls = 0
    /\ outcome = NoOutcome
    /\ result = NoOutcome

\* lines 88-93: a call of request(method, url, **kwargs) up to the point
\* where the transport has been invoked
request(method, url, kwargs) ==
    /\ pc = "idle"
    /\ args' = [method |-> method, url |-> url, kwargs |-> kwargs]
    /\ outcome' = NoOutcome
    /\ validatorCalls' = 0
    /\ IF JsonGiven(kwargs)
       THEN /\ result' = PlotlyError("V1 API does not handle arbitrary json.")
            /\ callerHeaders' = Get(kwargs, "headers", None)
            /\ assembled' = None
            /\ sent' = None
            /\ transportCalls' = 0
            /\ pc' = "done"
       ELSE IF ~HeadersMergeable(kwargs)
       THEN /\ assembled' = PyDict(get_headers)
            /\ result' = TypeError
            /\ callerHeaders' = Get(kwargs, "headers", None)
            /\ sent' = None
            /\ transportCalls' = 0
            /\ pc' = "done"
       ELSE LET headers == get_headers
                assigned == HeadersAssign(kwargs, headers)
            IN /\ assembled' = PyDict(headers)
               /\ callerHeaders' = assigned.caller
               /\ sent' = [method |-> method, url |-> url,
                           kwargs |-> assigned.kwargs]
               /\ transportCalls' = 1
               /\ result' = NoOutcome
               /\ pc' = "transport"
    /\ UNCHANGED <<creds, config>>

\* lines 93, 100-101: requests.request returns response
TransportReturns(response) ==
    /\ pc = "transport"
    /\ outcome' = [kind |-> "returned", response |-> response]
    /\ validatorCalls' = validatorCalls + 1
    /\ LET validated == validate_response(response)
       IN result' = IF validated.kind = "return" THEN Returned(response)
                    ELSE validated
    /\ pc' = "done"
    /\ UNCHANGED <<creds, config, args, callerHeaders, assembled, sent,
                   transportCalls>>

\* lines 93-99: requests.request raises the RequestException e
TransportRaises(e) ==
    /\ pc = "transport"
    /\ outcome' = [kind |-> "raised", exception |-> e]
    /\ result' = request_except(e)
    /\ pc' = "done"
    /\ UNCHANGED <<creds, config, args, callerHeaders, assembled, sent,
                   transportCalls, validatorCalls>>

\* the caller has the result of the call; nothing of a call outlives it
Finish ==
    /\ pc = "done"
    /\ pc' = "idle"
    /\ args' = None
    /\ callerHeaders' = None
    /\ assembled' = None
    /\ sent' = None
    /\ transportCalls' = 0
    /\ validatorCalls' = 0
    /\ outcome' = NoOutcome
    /\ result' = NoOutcome
    /\ UNCHANGED <<creds, config>>

Next ==
    \/ \E method \in Methods, url \in Urls, kwargs \in Kwargs :
          request(method, url, kwargs)
    \/ \E response \in Responses : TransportReturns(response)
    \/ \E e \in RequestExceptions : TransportRaises(e)
    \/ Finish

Spec == Init /\ [][Next]_vars

TypeOK ==
    /\ pc \in {"idle", "transport", "done"}
    /\ transportCalls \in 0..1
    /\ validatorCalls \in 0..1
    /\ result.kind \in {"none", "return", "PlotlyError", "PlotlyRequestError",
                       "TypeError"}

(***************************************************************************)
(* Properties                                                              *)
(***************************************************************************)
\* the call in progress ended with the transport raising / returning
Raised == pc = "done" /\ outcome.kind = "raised"
TransportReturned == pc = "done" /\ outcome.kind = "returned"

\* the headers the caller supplied with the call in progress ({} if none)
SuppliedHeaders ==
    IF "headers" \in DOMAIN args.kwargs THEN args.kwargs["headers"].v
    ELSE EmptyMap

\* C1: when the transport raises an exception that carries a response (of
\* any status code), the RequestError raised by request() has that response's
\* status_code and that response's raw content.
C1_AttachedResponseReported ==
    (Raised /\ outcome.exception["response"] # None) =>
        /\ result.kind = "PlotlyRequestError"
        /\ result.status_code = outcome.exception["response"].status_code
        /\ result.content = outcome.exception["response"].content

\* C2: when the transport raises an exception that carries no response, the
\* call ends by raising a RequestError with status_code None and content
\* "No content".
C2_NoResponseReported ==
    (Raised /\ outcome.exception["response"] = None) =>
        /\ result.kind = "PlotlyRequestError"
        /\ result.status_code = None
        /\ result.content = Str("No content")

C2_Witness ==
    /\ Raised
    /\ outcome.exception["response"] = None
    /\ result.kind = "PlotlyRequestError"
    /\ result.content = Str("No content")

\* C3: a call whose options hold a json entry other than None fails with a
\* PlotlyError, and neither the header assembly nor the transport has run.
C3_JsonRejected ==
    (pc # "idle" /\ "json" \in DOMAIN args.kwargs
                 /\ args.kwargs["json"] # None) =>
        /\ pc = "done"
        /\ result.kind = "PlotlyError"
        /\ transportCalls = 0
        /\ sent = None
        /\ assembled = None
        /\ validatorCalls = 0

C3_Witness ==
    /\ pc = "done"
    /\ "json" \in DOMAIN args.kwargs
    /\ args.kwargs["json"] = PyDict(EmptyMap)
    /\ result.kind = "PlotlyError"
    /\ transportCalls = 0

\* C4: the headers handed to the transport hold every assembled header with
\* the assembled value, every caller header of another name with the
\* caller's value, and nothing else.
C4_HeadersMerged ==
    (pc # "idle" /\ sent # None) =>
        LET merged == sent.kwargs["headers"].v
        IN /\ DOMAIN merged = (DOMAIN assembled.v) \cup (DOMAIN SuppliedHeaders)
           /\ \A k \in DOMAIN assembled.v : merged[k] = assembled.v[k]
           /\ \A k \in (DOMAIN SuppliedHeaders) \ (DOMAIN assembled.v) :
                 merged[k] = SuppliedHeaders[k]

C4_Witness ==
    /\ pc = "transport"
    /\ DOMAIN SuppliedHeaders = {"content-type", "x-custom"}
    /\ sent.kwargs["headers"].v["content-type"] = Str("application/json")
    /\ sent.kwargs["headers"].v["x-custom"] = Str("1")

\* C5: for a response that is not ok and whose body parses to a mapping with
\* a truthy "error" entry, the RequestError's message is that entry.
C5_ErrorFieldIsMessage ==
    (TransportReturned /\ ~Ok(outcome.response)) =>
        LET parsed == Json(outcome.response.content)
        IN (/\ parsed.ok
            /\ parsed.value.t = "dict"
            /\ "error" \in DOMAIN parsed.value.v
            /\ Truthy(parsed.value.v["error"])) =>
               /\ result.kind = "PlotlyRequestError"
               /\ result.message = parsed.value.v["error"]

C5_Witness ==
    /\ TransportReturned
    /\ outcome.response.status_code = PyInt(404)
    /\ outcome.response.content = Bytes(BodyError)
    /\ result.kind = "PlotlyRequestError"
    /\ result.message = Str("not found")

\* the parsed body has a usable error field
UsableError(parsed) ==
    /\ parsed.ok
    /\ parsed.value.t = "dict"
    /\ "error" \in DOMAIN parsed.value.v
    /\ Truthy(parsed.value.v["error"])

\* C6: for a response that is not ok and has no usable error field, the
\* RequestError's message is the raw body if that is not empty and
\* "No Content" if it is.
C6_FallbackMessage ==
    (/\ TransportReturned
     /\ ~Ok(outcome.response)
     /\ ~UsableError(Json(outcome.response.content))) =>
        /\ result.kind = "PlotlyRequestError"
        /\ result.message = IF outcome.response.content.v # ""
                            THEN outcome.response.content
                            ELSE Str("No Content")

C6_Witness ==
    /\ TransportReturned
    /\ ~Ok(outcome.response)
    /\ outcome.response.content = Bytes(BodyEmpty)
    /\ result.kind = "PlotlyRequestError"
    /\ result.message = Str("No Content")

\* C7: the validator raises exactly for the responses that are not ok, and
\* the RequestError then has the response's status_code and its raw body as
\* content.
C7_RaisesIffNotOk ==
    TransportReturned =>
        IF Ok(outcome.response)
        THEN result.kind = "return"
        ELSE /\ result.kind = "PlotlyRequestError"
             /\ result.status_code = outcome.response.status_code
             /\ result.content = outcome.response.content

C7_Witness ==
    /\ TransportReturned
    /\ outcome.response.status_code = PyInt(500)
    /\ outcome.response.content = Bytes(BodyNoError)
    /\ result.kind = "PlotlyRequestError"
    /\ result.status_code = PyInt(500)
    /\ result.content = Bytes(BodyNoError)

\* C8: the assembled headers always hold "content-type": "application/json";
\* they hold "authorization" exactly when plotly_proxy_authorization is set,
\* and then with the basic_auth value of the proxy credentials.
C8_AssembledHeaders ==
    (pc # "idle" /\ assembled # None) =>
        /\ "content-type" \in DOMAIN assembled.v
        /\ assembled.v["content-type"] = Str("application/json")
        /\ DOMAIN assembled.v \subseteq {"content-type", "authorization"}
        /\ ("authorization" \in DOMAIN assembled.v)
              <=> config.plotly_proxy_authorization
        /\ config.plotly_proxy_authorization =>
              assembled.v["authorization"] =
                  basic_auth(creds.proxy_username, creds.proxy_password)

\* "Basic " followed by base64("a:b") = "YTpi"
C8_Witness ==
    /\ pc = "transport"
    /\ config.plotly_proxy_authorization
    /\ creds.proxy_username = <<97>>
    /\ creds.proxy_password = <<98>>
    /\ creds.username = <<117>>
    /\ assembled.v["authorization"] =
          Bytes(<<66, 97, 115, 105, 99, 32, 89, 84, 112, 105>>)

\* C9: a call invokes the transport at most once, runs the validator only
\* after the transport returned, returns normally exactly when the transport
\* returned an ok response, and then returns that very response.
C9_OneTransportCall ==
    /\ transportCalls <= 1
    /\ validatorCalls <= 1
    /\ validatorCalls = 1 => outcome.kind = "returned"
    /\ pc = "done" =>
          /\ (result.kind = "return")
                <=> (outcome.kind = "returned" /\ Ok(outcome.response))
          /\ result.kind = "return" => result.value = outcome.response
    /\ pc # "done" => result.kind = "none"

C9_Witness ==
    /\ pc = "done"
    /\ transportCalls = 1
    /\ validatorCalls = 1
    /\ result.kind = "return"
    /\ result.value.status_code = PyInt(302)

\* C10: the transport receives method, url and every option but "headers" as
\* the caller supplied them and no option but "headers" is added; the
\* caller's own headers mapping is as the caller passed it, on every path.
C10_PassThrough ==
    pc # "idle" =>
        /\ callerHeaders = Get(args.kwargs, "headers", None)
        /\ sent # None =>
              /\ sent.method = args.method
              /\ sent.url = args.url
              /\ DOMAIN sent.kwargs = (DOMAIN args.kwargs) \cup {"headers"}
              /\ \A k \in (DOMAIN args.kwargs) \ {"headers"} :
                    sent.kwargs[k] = args.kwargs[k]

C10_Witness ==
    /\ pc = "done"
    /\ outcome.kind = "raised"
    /\ args.method = "post"
    /\ "timeout" \in DOMAIN args.kwargs
    /\ sent.kwargs["timeout"] = PyInt(5)
    /\ callerHeaders = PyDict("x-custom" :> Str("1"))
    /\ sent.kwargs["headers"] # callerHeaders

====
